---- MODULE Spec2Model ----
(***************************************************************************)
(* A model of stock-tracker (src/src/main.rs): the four series statistics  *)
(* price_diff, n_window_sma, max and min, and the loop of main that feeds  *)
(* each symbol's quotes through them and prints one CSV row per symbol.    *)
(*                                                                         *)
(* An f64 is modelled as an exact fraction <<num, den>> in lowest terms    *)
(* with den > 0; the two infinities are <<1, 0>> and <<-1, 0>>, and 0/0 is *)
(* <<0, 0>> (NaN), which no input holds.  f64::MAX is a large finite       *)
(* stand-in, and every price the arithmetic operators are applied to is    *)
(* far below it, so no sum or quotient of the model overflows.  Results    *)
(* are exact: the rounding of f64 arithmetic is not modelled.              *)
(***************************************************************************)
EXTENDS Integers, Sequences, FiniteSets, TLC

VARIABLES
    pc,         \* where main is: "start", "loop", "fetched", "done", "panicked"; "idle" when main is not run
    symbols,    \* opts.symbols.split(','), as a sequence
    fromArg,    \* opts.from, the string given on the command line
    from,       \* the parsed DateTime<Utc> (an instant), NoDate before parsing
    i,          \* position of the for loop in symbols (1-based)
    response,   \* what the provider returned for symbols[i]
    closes,     \* the local `closes` of the current iteration, <<>> until it is built
    taken,      \* the unwrap_or fallbacks the current iteration took
    stdout,     \* the lines printed so far
    stderr,     \* the diagnostics printed so far
    fetchLog,   \* the calls made to provider.get_quote_history, with their outcome
    called,     \* the statistic called directly: "none", "price_diff", "n_window_sma", "max", "min"
    arg_n,      \* its window argument
    arg_series, \* its series argument
    result      \* what it returned

vars == <<pc, symbols, fromArg, from, i, response, closes, taken, stdout, stderr,
          fetchLog, called, arg_n, arg_series, result>>

mainVars == <<pc, symbols, fromArg, from, i, response, closes, taken, stdout, stderr, fetchLog>>
callVars == <<called, arg_n, arg_series, result>>

-----------------------------------------------------------------------------
(* Bounds *)

MaxLen == 4
MaxN == 5
MaxSymbols == 2
MaxQuotes == 2

-----------------------------------------------------------------------------
(* f64 *)

Abs(x) == IF x < 0 THEN -x ELSE x

RECURSIVE GCD(_, _)
GCD(a, b) == IF b = 0 THEN a ELSE GCD(b, a % b)

Norm(n, d) ==
    LET g == GCD(Abs(n), Abs(d))
        s == IF d < 0 THEN -1 ELSE 1
    IN  IF g = 0 THEN <<0, 0>> ELSE <<(s * n) \div g, (s * d) \div g>>

F(k) == <<k, 1>>

MaxFinite == 1000000
F64_MAX == <<MaxFinite, 1>>
F64_MIN == <<-MaxFinite, 1>>
PosInf == <<1, 0>>
NegInf == <<-1, 0>>

FSub(a, b) == Norm(a[1] * b[2] - b[1] * a[2], a[2] * b[2])
FAdd(a, b) == Norm(a[1] * b[2] + b[1] * a[2], a[2] * b[2])
FMul(a, b) == Norm(a[1] * b[1], a[2] * b[2])
FDiv(a, b) == Norm(a[1] * b[2], a[2] * b[1])

FLt(a, b) ==
    IF a[2] = 0 /\ b[2] = 0 THEN a[1] < b[1]
    ELSE a[1] * b[2] < b[1] * a[2]

FLe(a, b) == a = b \/ FLt(a, b)

\* f64::max and f64::min of two numbers, neither NaN
FMaxOf(a, b) == IF FLt(a, b) THEN b ELSE a
FMinOf(a, b) == IF FLt(b, a) THEN b ELSE a

-----------------------------------------------------------------------------
(* Option *)

None == [some |-> FALSE]
Some(v) == [some |-> TRUE, val |-> v]
UnwrapOr(o, d) == IF o.some THEN o.val ELSE d

\* slice::last
LastOf(s) == IF s = <<>> THEN None ELSE Some(s[Len(s)])

-----------------------------------------------------------------------------
(* The statistics *)

\* price_diff without the substitution of 1.0 for a zero first price
price_diff_zero_first(a) ==
    IF a # <<>>
    THEN LET diff == FSub(a[Len(a)], a[1])
         IN  Some(<<diff, FDiv(diff, a[1])>>)
    ELSE None

price_diff(a) ==
    IF a # <<>>
    THEN LET first == a[1]
             last == a[Len(a)]
             diff == FSub(last, first)
             first2 == IF first = F(0) THEN F(1) ELSE first
             rel_diff == FDiv(diff, first2)
         IN  Some(<<diff, rel_diff>>)
    ELSE None

\* Iterator::collect into a Vec: the elements, each evaluated once
Collect(f) == SubSeq(f, 1, Len(f))

\* windows that stop one span short of the end
Windows_short(n, series) ==
    Collect([k \in 1..(IF Len(series) >= n THEN Len(series) - n ELSE 0)
                |-> SubSeq(series, k, k + n - 1)])

\* slice::windows(n), n >= 1: every contiguous span of n elements, in order
Windows(n, series) ==
    Collect([k \in 1..(IF Len(series) >= n THEN Len(series) - n + 1 ELSE 0)
                |-> SubSeq(series, k, k + n - 1)])

\* w.iter().sum::<f64>(): a fold from 0.0, left to right.  A denominator is never
\* negative: the test only has TLC evaluate the accumulator at every step.
RECURSIVE FoldSum(_, _, _)
FoldSum(acc, w, k) ==
    IF k > Len(w) THEN acc
    ELSE LET next == FAdd(acc, w[k])
         IN  IF next[2] >= 0 THEN FoldSum(next, w, k + 1) ELSE next

Sum(w) == FoldSum(F(0), w, 1)

WindowMean(w) == FDiv(Sum(w), F(Len(w)))

\* n_window_sma that takes a window of one element for a window
n_window_sma_n1(n, series) ==
    IF series # <<>> /\ n >= 1
    THEN LET ws == Windows(n, series)
         IN  Some(Collect([k \in 1..Len(ws) |-> WindowMean(ws[k])]))
    ELSE None

n_window_sma(n, series) ==
    IF series # <<>> /\ n > 1
    THEN LET ws == Windows(n, series)
         IN  Some(Collect([k \in 1..Len(ws) |-> WindowMean(ws[k])]))
    ELSE None

\* the two folds, left to right; as in FoldSum the test on the denominator only has
\* TLC evaluate the accumulator at every step
RECURSIVE FoldMax(_, _, _)
FoldMax(acc, series, k) ==
    IF k > Len(series) THEN acc
    ELSE LET next == FMaxOf(acc, series[k])
         IN  IF next[2] >= 0 THEN FoldMax(next, series, k + 1) ELSE next

RECURSIVE FoldMin(_, _, _)
FoldMin(acc, series, k) ==
    IF k > Len(series) THEN acc
    ELSE LET next == FMinOf(acc, series[k])
         IN  IF next[2] >= 0 THEN FoldMin(next, series, k + 1) ELSE next

\* max that takes a series of one element for empty
max_needs_two(series) ==
    IF Len(series) <= 1 THEN None ELSE Some(FoldMax(F64_MIN, series, 1))

max(series) == IF series = <<>> THEN None ELSE Some(FoldMax(F64_MIN, series, 1))

min(series) == IF series = <<>> THEN None ELSE Some(FoldMin(F64_MAX, series, 1))

-----------------------------------------------------------------------------
(* Direct calls of the statistics *)

SeqsUpTo(S, n) == UNION {[1..k -> S] : k \in 0..n}

\* prices the arithmetic is exercised on
FiniteVals == {F(-5), F(0), F(5), F(10)}
\* every kind of non-NaN f64 for the two folds
ExtVals == {NegInf, F64_MIN, F(-1), F(2), F(3), F(7), F64_MAX, PosInf}

NoCall == called = "none" /\ arg_n = 0 /\ result = None

MainIdle ==
    /\ pc = "idle"
    /\ symbols = <<>>
    /\ fromArg = ""
    /\ from = 0
    /\ i = 0
    /\ response = [kind |-> "None", quotes |-> <<>>]
    /\ closes = <<>>
    /\ taken = {}
    /\ stdout = <<>>
    /\ stderr = <<>>
    /\ fetchLog = <<>>

\* the arithmetic of price_diff and n_window_sma is modelled on finite prices
AllFinite(s) == \A k \in 1..Len(s) : s[k][2] # 0 /\ Abs(s[k][1]) < MaxFinite

InitFn ==
    /\ MainIdle
    /\ NoCall
    /\ arg_series \in SeqsUpTo(FiniteVals, MaxLen) \cup SeqsUpTo(ExtVals, MaxLen)

CallPriceDiff ==
    /\ called = "none"
    /\ AllFinite(arg_series)
    /\ called' = "price_diff"
    /\ result' = price_diff(arg_series)
    /\ UNCHANGED <<arg_n, arg_series>>
    /\ UNCHANGED mainVars

CallSma ==
    /\ called = "none"
    /\ AllFinite(arg_series)
    /\ \E n \in 0..MaxN :
        /\ called' = "n_window_sma"
        /\ arg_n' = n
        /\ result' = n_window_sma(n, arg_series)
    /\ UNCHANGED arg_series
    /\ UNCHANGED mainVars

CallMax ==
    /\ called = "none"
    /\ called' = "max"
    /\ result' = max(arg_series)
    /\ UNCHANGED <<arg_n, arg_series>>
    /\ UNCHANGED mainVars

CallMin ==
    /\ called = "none"
    /\ called' = "min"
    /\ result' = min(arg_series)
    /\ UNCHANGED <<arg_n, arg_series>>
    /\ UNCHANGED mainVars

NextFn == CallPriceDiff \/ CallSma \/ CallMax \/ CallMin

SpecFn == InitFn /\ [][NextFn]_vars

-----------------------------------------------------------------------------
(* Properties of the statistics, checked under SpecFn *)

FnSeries == SeqsUpTo(FiniteVals, MaxLen)

\* the mean of a span, summed by halves
RECURSIVE TotalOf(_, _, _)
TotalOf(s, lo, hi) ==
    IF lo > hi THEN F(0)
    ELSE IF lo = hi THEN s[lo]
    ELSE FAdd(TotalOf(s, lo, (lo + hi) \div 2), TotalOf(s, (lo + hi) \div 2 + 1, hi))

MeanOfSpan(s, lo, hi) == FDiv(TotalOf(s, lo, hi), F(hi - lo + 1))

Elems(s) == {s[k] : k \in 1..Len(s)}

\* C4: for a non-empty series of length L and a window n with 1 < n <= L,
\* n_window_sma(n, s) is present and holds exactly L - n + 1 values, the value at
\* position k being the mean of s[k .. k+n-1]; its last value is the mean of the
\* final n elements.
C4_SmaWindows ==
    (called = "n_window_sma" /\ arg_series # <<>> /\ 1 < arg_n /\ arg_n <= Len(arg_series)) =>
        LET L == Len(arg_series)
        IN  /\ result.some
            /\ Len(result.val) = L - arg_n + 1
            /\ \A k \in 1..(L - arg_n + 1) :
                  result.val[k] = MeanOfSpan(arg_series, k, k + arg_n - 1)
            /\ result.val[Len(result.val)] = MeanOfSpan(arg_series, L - arg_n + 1, L)

C4_Witness ==
    /\ called = "n_window_sma"
    /\ arg_n = 2
    /\ arg_series = <<F(0), F(5), F(10), F(-5)>>
    /\ result = Some(<<<<5, 2>>, <<15, 2>>, <<5, 2>>>>)

\* C5: n_window_sma returns absent if and only if the series is empty or n <= 1
\* (so for an empty series, absent for every n); for a non-empty series and n > 1
\* greater than its length it returns a present, empty sequence.
C5_SmaAbsentOrEmpty ==
    called = "n_window_sma" =>
        /\ (result = None) <=> (arg_series = <<>> \/ arg_n <= 1)
        /\ (arg_series # <<>> /\ arg_n > 1 /\ arg_n > Len(arg_series)) => result = Some(<<>>)
        /\ (arg_series # <<>> /\ arg_n > 1 /\ arg_n <= Len(arg_series)) =>
              (result.some /\ result.val # <<>>)

C5_Witness ==
    /\ called = "n_window_sma"
    /\ arg_series = <<F(5), F(10)>>
    /\ arg_n = 3
    /\ result = Some(<<>>)
    /\ n_window_sma(1, arg_series) = None
    /\ n_window_sma(0, <<>>) = None

\* C6: price_diff returns absent exactly for the empty series; otherwise
\* (last - first, (last - first) / d) with d = first, or 1 when first is 0.  The
\* result is that of every series with the same first and last element, and a
\* one-element series gives (0, 0).
C6_PriceDiff ==
    called = "price_diff" =>
        /\ (result = None) <=> (arg_series = <<>>)
        /\ arg_series # <<>> =>
              LET first == arg_series[1]
                  last == arg_series[Len(arg_series)]
                  d == IF first = F(0) THEN F(1) ELSE first
              IN  /\ result = Some(<<FSub(last, first), FDiv(FSub(last, first), d)>>)
                  /\ \A t \in FnSeries :
                        (t # <<>> /\ t[1] = first /\ t[Len(t)] = last) => price_diff(t) = result
        /\ Len(arg_series) = 1 => result = Some(<<F(0), F(0)>>)
        /\ arg_series = <<F(0), F(10)>> => result = Some(<<F(10), F(10)>>)
        /\ arg_series = <<F(5), F(10)>> => result = Some(<<F(5), F(1)>>)

C6_Witness ==
    /\ called = "price_diff"
    /\ arg_series = <<F(0), F(5), F(-5), F(10)>>
    /\ result = Some(<<F(10), F(10)>>)

\* C7: max and min return absent exactly for the empty series; for a non-empty
\* series of non-NaN values max returns an element of the series that is >= every
\* element, and min an element that is <= every element.
C7_MaxMinAreElements ==
    /\ called = "max" =>
          /\ (result = None) <=> (arg_series = <<>>)
          /\ arg_series # <<>> =>
                /\ result.val \in Elems(arg_series)
                /\ \A e \in Elems(arg_series) : FLe(e, result.val)
    /\ called = "min" =>
          /\ (result = None) <=> (arg_series = <<>>)
          /\ arg_series # <<>> =>
                /\ result.val \in Elems(arg_series)
                /\ \A e \in Elems(arg_series) : FLe(result.val, e)

-----------------------------------------------------------------------------
(* main *)

SMA_WINDOW == 30

\* line 83: the header line
HEADER == [text |-> "period start,symbol,price,change %,min,max,30d avg"]

\* opts.from.parse::<DateTime<Utc>>(): the instant (Unix seconds) of an RFC 3339
\* string, None for anything else
ParseDate(str) ==
    CASE str = "2020-01-01T00:00:00Z" -> Some(1577836800)
      [] str = "2020-06-01T09:00:00+09:00" -> Some(1590969600)
      [] OTHER -> None

\* DateTime<Utc>::to_rfc3339
to_rfc3339(t) ==
    CASE t = 1577836800 -> "2020-01-01T00:00:00+00:00"
      [] t = 1590969600 -> "2020-06-01T00:00:00+00:00"
      [] OTHER -> "?"

\* a date with an offset, and a date that is not RFC 3339
FromArgs == {"2020-06-01T09:00:00+09:00", "2020-01-01"}
Tickers == {"MSFT", "GOOG"}

\* the quotes of the provider's short answers, in any order and number
Quotes ==
    {[timestamp |-> 1, adjclose |-> F(100)],
     [timestamp |-> 2, adjclose |-> F(110)]}

\* len quotes in time order, or against it
LongQuotes(len, desc) ==
    Collect([k \in 1..len |->
        LET t == IF desc THEN len + 1 - k ELSE k
        IN  [timestamp |-> t, adjclose |-> F(((t * t) % 7) * 10 - 20)]])

\* two quotes of one timestamp, in both orders
TiedQuotes ==
    {<<[timestamp |-> 2, adjclose |-> F(110)], [timestamp |-> 2, adjclose |-> F(0)]>>,
     <<[timestamp |-> 2, adjclose |-> F(0)], [timestamp |-> 2, adjclose |-> F(110)]>>}

\* every short answer, the tied ones, and a full window of quotes, one quote less
\* and one more
QuoteLists ==
    SeqsUpTo(Quotes, MaxQuotes)
        \cup TiedQuotes
        \cup {LongQuotes(len, len # SMA_WINDOW) : len \in (SMA_WINDOW - 1)..(SMA_WINDOW + 1)}

Responses ==
    {[kind |-> "FetchErr", quotes |-> <<>>], [kind |-> "ParseErr", quotes |-> <<>>]}
        \cup {[kind |-> "Ok", quotes |-> q] : q \in QuoteLists}

NoResponse == [kind |-> "None", quotes |-> <<>>]

\* where a stable ascending sort by timestamp puts qs[k]: after every quote with a
\* smaller timestamp and after the earlier quotes with the same timestamp
Rank(qs, k) ==
    1 + Cardinality({j \in 1..Len(qs) :
            \/ qs[j].timestamp < qs[k].timestamp
            \/ qs[j].timestamp = qs[k].timestamp /\ j < k})

\* quotes.sort_by_cached_key(|k| k.timestamp): ascending, stable
sort_by_cached_key(qs) ==
    LET rank == Collect([k \in 1..Len(qs) |-> Rank(qs, k)])
    IN  Collect([p \in 1..Len(qs) |-> qs[CHOOSE k \in 1..Len(qs) : rank[k] = p]])

\* quotes.iter().map(|q| q.adjclose as f64).collect()
Project(qs) == Collect([k \in 1..Len(qs) |-> qs[k].adjclose])

\* closes taken in arrival order, the sort left out
BuildCloses_unsorted(qs) == Project(qs)

BuildCloses(qs) == Project(sort_by_cached_key(qs))

\* lines 94-99: the statistics of a series, as the Options the functions return
Statistics(cl) ==
    [max_period |-> max(cl),
     min_period |-> min(cl),
     last_price |-> LastOf(cl),
     diff |-> price_diff(cl),
     sma |-> n_window_sma(SMA_WINDOW, cl)]

\* the unwrap_or fallbacks of lines 97, 98, 99 and 109 that these statistics take
Fallbacks(st) ==
    {f \in {"last_price", "price_diff", "sma", "sma_last"} :
        \/ f = "last_price" /\ ~st.last_price.some
        \/ f = "price_diff" /\ ~st.diff.some
        \/ f = "sma" /\ ~st.sma.some
        \/ f = "sma_last" /\ ~LastOf(UnwrapOr(st.sma, <<>>)).some}

\* a row whose average is the first window's, not the last's
BuildRow_first_window(fromT, symbol, st) ==
    LET sma == UnwrapOr(st.sma, <<>>)
    IN  [period_start |-> to_rfc3339(fromT),
         symbol |-> symbol,
         price |-> UnwrapOr(st.last_price, F(0)),
         change |-> FMul(UnwrapOr(st.diff, <<F(0), F(0)>>)[2], F(100)),
         min |-> st.min_period.val,
         max |-> st.max_period.val,
         avg |-> IF sma = <<>> THEN F(0) ELSE sma[1]]

\* a row printed right under the header, above the earlier rows
PrintRow_on_top(out, row) == <<out[1], row>> \o Tail(out)

\* stdout after println! of a row
PrintRow(out, row) == Append(out, row)

\* the values of the println! of lines 101-110
BuildRow(fromT, symbol, st) ==
    LET last_price == UnwrapOr(st.last_price, F(0))
        pct_change == UnwrapOr(st.diff, <<F(0), F(0)>>)[2]
        sma == UnwrapOr(st.sma, <<>>)
    IN  [period_start |-> to_rfc3339(fromT),
         symbol |-> symbol,
         price |-> last_price,
         change |-> FMul(pct_change, F(100)),
         min |-> st.min_period.val,
         max |-> st.max_period.val,
         avg |-> UnwrapOr(LastOf(sma), F(0))]

Diagnostic(symbol) == [text |-> "No quotes found", symbol |-> symbol]

\* str::split yields at least one item, so the symbol list is never empty
Init ==
    /\ pc = "start"
    /\ symbols \in SeqsUpTo(Tickers, MaxSymbols) \ {<<>>}
    /\ fromArg \in FromArgs
    /\ from = 0
    /\ i = 0
    /\ response = NoResponse
    /\ closes = <<>>
    /\ taken = {}
    /\ stdout = <<>>
    /\ stderr = <<>>
    /\ fetchLog = <<>>
    /\ NoCall
    /\ arg_series = <<>>

\* lines 75-83: parse the options (a malformed date panics), print the header
Start ==
    /\ pc = "start"
    /\ IF ParseDate(fromArg).some
       THEN /\ from' = ParseDate(fromArg).val
            /\ stdout' = <<HEADER>>
            /\ i' = 1
            /\ pc' = "loop"
       ELSE /\ pc' = "panicked"
            /\ UNCHANGED <<from, stdout, i>>
    /\ UNCHANGED <<symbols, fromArg, response, closes, taken, stderr, fetchLog>>
    /\ UNCHANGED callVars

\* line 86: the provider is asked for the next symbol's history and answers
Fetch ==
    /\ pc = "loop"
    /\ i <= Len(symbols)
    /\ \E r \in Responses :
        /\ response' = r
        /\ fetchLog' = Append(fetchLog, [symbol |-> symbols[i], kind |-> r.kind,
                                         empty |-> r.quotes = <<>>])
    /\ closes' = <<>>
    /\ taken' = {}
    /\ pc' = "fetched"
    /\ UNCHANGED <<symbols, fromArg, from, i, stdout, stderr>>
    /\ UNCHANGED callVars

\* a failed fetch that is tried again: the loop does not move on
HandleFetchErr_retry ==
    /\ pc = "fetched"
    /\ response.kind = "FetchErr"
    /\ stderr' = Append(stderr, Diagnostic(symbols[i]))
    /\ pc' = "loop"
    /\ UNCHANGED <<symbols, fromArg, from, i, response, closes, taken, stdout, fetchLog>>
    /\ UNCHANGED callVars

\* lines 118-120: get_quote_history returned Err
HandleFetchErr ==
    /\ pc = "fetched"
    /\ response.kind = "FetchErr"
    /\ stderr' = Append(stderr, Diagnostic(symbols[i]))
    /\ i' = i + 1
    /\ pc' = "loop"
    /\ UNCHANGED <<symbols, fromArg, from, response, closes, taken, stdout, fetchLog>>
    /\ UNCHANGED callVars

\* lines 114-116: response.quotes() returned Err
HandleParseErr ==
    /\ pc = "fetched"
    /\ response.kind = "ParseErr"
    /\ stderr' = Append(stderr, Diagnostic(symbols[i]))
    /\ i' = i + 1
    /\ pc' = "loop"
    /\ UNCHANGED <<symbols, fromArg, from, response, closes, taken, stdout, fetchLog>>
    /\ UNCHANGED callVars

\* lines 88-113: response.quotes() returned Ok(quotes)
HandleQuotes ==
    /\ pc = "fetched"
    /\ response.kind = "Ok"
    /\ IF response.quotes # <<>>
       THEN LET cl == BuildCloses(response.quotes)
                st == Statistics(cl)
            IN  /\ closes' = cl
                /\ IF cl # <<>>
                   THEN IF st.max_period.some /\ st.min_period.some
                        THEN /\ stdout' = PrintRow(stdout, BuildRow(from, symbols[i], st))
                             /\ taken' = Fallbacks(st)
                             /\ i' = i + 1
                             /\ pc' = "loop"
                        ELSE /\ pc' = "panicked"
                             /\ UNCHANGED <<stdout, taken, i>>
                   ELSE /\ i' = i + 1
                        /\ pc' = "loop"
                        /\ UNCHANGED <<stdout, taken>>
       ELSE /\ i' = i + 1
            /\ pc' = "loop"
            /\ UNCHANGED <<stdout, taken, closes>>
    /\ UNCHANGED <<symbols, fromArg, from, response, stderr, fetchLog>>
    /\ UNCHANGED callVars

\* line 123: the loop is over, main returns Ok(())
Finish ==
    /\ pc = "loop"
    /\ i > Len(symbols)
    /\ pc' = "done"
    /\ UNCHANGED <<symbols, fromArg, from, i, response, closes, taken, stdout, stderr, fetchLog>>
    /\ UNCHANGED callVars

Next == Start \/ Fetch \/ HandleFetchErr \/ HandleParseErr \/ HandleQuotes \/ Finish

Spec == Init /\ [][Next]_vars

-----------------------------------------------------------------------------
(* Properties of main, checked under Spec *)

Rows == IF stdout = <<>> THEN <<>> ELSE Tail(stdout)
LastRow == stdout[Len(stdout)]

\* the fetches whose symbol has been fully handled
Handled == SubSeq(fetchLog, 1, IF pc = "fetched" THEN Len(fetchLog) - 1 ELSE Len(fetchLog))
Failed(e) == e.kind # "Ok" \/ e.empty
Succeeded(e) == e.kind = "Ok" /\ ~e.empty
SymbolsOf(log) == [k \in 1..Len(log) |-> log[k].symbol]

\* the last symbol handled returned a non-empty quote list
RowJustPrinted ==
    pc \in {"loop", "done"} /\ i > 1 /\ response.kind = "Ok" /\ response.quotes # <<>>

\* C1: once the run is over every requested symbol has produced exactly one of a
\* data row and a diagnostic naming it: the symbols that failed to fetch, failed
\* to parse or came back with no quotes each have one diagnostic and no row.
C1_RowOrDiagnostic ==
    pc = "done" =>
        /\ stderr = [k \in 1..Len(SelectSeq(fetchLog, Failed)) |->
                        Diagnostic(SelectSeq(fetchLog, Failed)[k].symbol)]
        /\ [k \in 1..Len(Rows) |-> Rows[k].symbol] = SymbolsOf(SelectSeq(fetchLog, Succeeded))
        /\ Len(Rows) + Len(stderr) = Len(symbols)

\* C2: the provider is called once for each symbol, in list order, whatever the
\* earlier symbols' outcomes; the loop moves on after every outcome, and main
\* returns normally after the last symbol.
C2_OneFetchPerSymbol ==
    /\ Len(fetchLog) <= Len(symbols)
    /\ SymbolsOf(fetchLog) = SubSeq(symbols, 1, Len(fetchLog))
    /\ pc = "loop" => Len(fetchLog) = i - 1
    \* one of the three handlers takes every answer
    /\ pc = "fetched" => (Len(fetchLog) = i /\ response.kind \in {"FetchErr", "ParseErr", "Ok"})
    /\ pc = "done" => Len(fetchLog) = Len(symbols)
    /\ pc = "panicked" => (fetchLog = <<>> /\ ~ParseDate(fromArg).some)
    /\ pc \in {"start", "loop", "fetched", "done", "panicked"}
    /\ pc \in {"loop", "fetched"} => i \in 1..(Len(symbols) + 1)

C2_Witness ==
    /\ pc = "done"
    /\ Len(symbols) = 2
    /\ fetchLog[1].kind = "FetchErr"
    /\ fetchLog[2].kind = "Ok"
    /\ Len(stdout) = 2
    /\ Len(stderr) = 1

\* C3: stdout is the header line followed by the rows of the symbols handled so far
\* that returned quotes, in the order of the symbol list, one row each.
C3_HeaderThenRowsInOrder ==
    pc \in {"loop", "fetched", "done"} =>
        /\ stdout # <<>>
        /\ stdout[1] = HEADER
        /\ \A k \in 1..Len(Rows) : DOMAIN Rows[k] # DOMAIN HEADER
        /\ [k \in 1..Len(Rows) |-> Rows[k].symbol] = SymbolsOf(SelectSeq(Handled, Succeeded))
        /\ \E f \in [1..Len(Rows) -> 1..Len(symbols)] :
              /\ \A k \in 1..Len(Rows) : symbols[f[k]] = Rows[k].symbol
              /\ \A k \in 1..(Len(Rows) - 1) : f[k] < f[k + 1]

C3_Witness ==
    /\ pc = "done"
    /\ symbols = <<"GOOG", "MSFT">>
    /\ Len(stdout) = 3
    /\ stdout[2].symbol = "GOOG"
    /\ stdout[3].symbol = "MSFT"
    /\ stdout[2].price = F(110)
    /\ stdout[3].price = F(100)

\* C8: the row of a symbol that returned quotes carries the run's from timestamp
\* (the same in every row), the last close of the sorted series, 100 times the
\* relative change of price_diff, the series' minimum and maximum, and the mean of
\* its last 30 closes, or 0.0 when it has fewer than 30.
C8_RowValues ==
    /\ \A k \in 1..Len(Rows) :
          Rows[k].period_start = to_rfc3339(from) /\ ParseDate(fromArg) = Some(from)
    /\ RowJustPrinted =>
          LET L == Len(closes)
          IN  /\ Len(Rows) = Len(SelectSeq(Handled, Succeeded))
              /\ LastRow.symbol = symbols[i - 1]
              /\ LastRow.price = closes[L]
              /\ LastRow.change = FMul(F(100), price_diff(closes).val[2])
              /\ LastRow.min \in Elems(closes)
              /\ \A e \in Elems(closes) : FLe(LastRow.min, e)
              /\ LastRow.max \in Elems(closes)
              /\ \A e \in Elems(closes) : FLe(e, LastRow.max)
              /\ LastRow.avg =
                    IF L >= SMA_WINDOW THEN MeanOfSpan(closes, L - SMA_WINDOW + 1, L) ELSE F(0)
              /\ response.quotes = <<[timestamp |-> 1, adjclose |-> F(100)],
                                     [timestamp |-> 2, adjclose |-> F(110)]>> =>
                    /\ LastRow.price = F(110)
                    /\ LastRow.change = F(10)
                    /\ LastRow.min = F(100)
                    /\ LastRow.max = F(110)
                    /\ LastRow.avg = F(0)

C8_Witness ==
    /\ RowJustPrinted
    /\ Len(stdout) = 3
    /\ stdout[2] = [period_start |-> "2020-06-01T00:00:00+00:00", symbol |-> "MSFT",
                    price |-> F(110), change |-> F(10), min |-> F(100), max |-> F(110),
                    avg |-> F(0)]
    /\ Len(closes) = SMA_WINDOW + 1
    /\ LastRow.avg # F(0)
    /\ LastRow.period_start = "2020-06-01T00:00:00+00:00"

DistinctTimestamps(qs) ==
    \A j, k \in 1..Len(qs) : j # k => qs[j].timestamp # qs[k].timestamp

Reverse(qs) == [k \in 1..Len(qs) |-> qs[Len(qs) + 1 - k]]
Rotate(qs) == IF qs = <<>> THEN qs ELSE Append(Tail(qs), qs[1])
SwapFirstTwo(qs) == IF Len(qs) < 2 THEN qs ELSE <<qs[2], qs[1]>> \o SubSeq(qs, 3, Len(qs))

CountIn(s, v) == Cardinality({k \in 1..Len(s) : s[k] = v})

\* C9: the series holds the closes of the fetched quotes, all of them, in ascending
\* order of timestamp; for quotes of distinct timestamps the row does not depend
\* on the order they arrived in, its price is the close of the latest quote and its
\* change runs from the earliest quote to the latest.
C9_SortedSeries ==
    RowJustPrinted =>
        LET qs == response.quotes
            earlier(q) == {k \in 1..Len(qs) : qs[k].timestamp < q.timestamp}
            sameTime(q) == {k \in 1..Len(qs) : qs[k].timestamp = q.timestamp}
        IN  /\ Len(closes) = Len(qs)
            /\ \A v \in Elems(closes) \cup {qs[k].adjclose : k \in 1..Len(qs)} :
                  CountIn(closes, v) = CountIn([k \in 1..Len(qs) |-> qs[k].adjclose], v)
            /\ \A k \in 1..Len(qs) :
                  \E p \in (Cardinality(earlier(qs[k])) + 1)..
                           (Cardinality(earlier(qs[k])) + Cardinality(sameTime(qs[k]))) :
                      closes[p] = qs[k].adjclose
            /\ DistinctTimestamps(qs) =>
                  /\ \A k \in 1..Len(qs) :
                        /\ earlier(qs[k]) = {} =>
                              LastRow.change =
                                 FMul(F(100),
                                      FDiv(FSub(LastRow.price, qs[k].adjclose),
                                           IF qs[k].adjclose = F(0) THEN F(1) ELSE qs[k].adjclose))
                        /\ Cardinality(earlier(qs[k])) = Len(qs) - 1 =>
                              LastRow.price = qs[k].adjclose
                  /\ \A other \in {Reverse(qs), Rotate(qs), SwapFirstTwo(qs)} :
                        LET series == BuildCloses(other)
                        IN  /\ series = closes
                            /\ BuildRow(from, symbols[i - 1], Statistics(series)) = LastRow

C9_Witness ==
    /\ RowJustPrinted
    /\ response.quotes = <<[timestamp |-> 2, adjclose |-> F(110)],
                           [timestamp |-> 1, adjclose |-> F(100)]>>
    /\ closes = <<F(100), F(110)>>
    /\ LastRow.price = F(110)
    /\ LastRow.change = F(10)

\* C10: main calls the statistics on a non-empty series only: the unwrap of max
\* and of min never meets an absent value, so main panics on a malformed date
\* alone; the fallbacks for the last price, for price_diff and for an absent
\* moving average are never taken, and the 0.0 for the trailing average is taken
\* exactly when the series is shorter than 30.
C10_NonEmptySeries ==
    /\ pc = "panicked" => (i = 0 /\ ~ParseDate(fromArg).some)
    /\ RowJustPrinted =>
          /\ Len(closes) >= 1
          /\ max(closes).some
          /\ min(closes).some
          /\ taken \subseteq {"sma_last"}
          /\ ("sma_last" \in taken) <=> (Len(closes) < SMA_WINDOW)
    /\ taken # {} => RowJustPrinted

C10_Witness ==
    /\ RowJustPrinted
    /\ Len(closes) = 1
    /\ taken = {"sma_last"}
    /\ Len(stdout) = 2

====
